---------------------------- MODULE Spec2Model ----------------------------
(* A model of the error-classification pipeline, the validation           *)
(* middleware and the configuration loader of the REST API skeleton:      *)
(*   src/middleware/errorHandler.js   AppError, errorHandler, asyncHandler*)
(*   src/middleware/validator.js      validate                            *)
(*   src/controllers/mainController.js  systemInfo, ConfigManager         *)
(*                                      and the route POST /api/users     *)
(*   src/README.md                    Server (constructor, start)         *)
EXTENDS Integers, Sequences, FiniteSets, TLC

VARIABLES
  raised,     \* the failure record as it was raised (history, never written)
  err,        \* the failure record handed to errorHandler (it is mutated)
  nodeEnv,    \* process.env.NODE_ENV
  ehPc,       \* errorHandler: "idle" | "ready" | "done" | "threw"
  ehNext,     \* number of calls errorHandler made to its next argument
  logged,     \* whether console.error('Error:', err) ran
  res,        \* the HTTP response of the request
  route,      \* how the route runs its rules: "validate" | "chains" | "none"
  rules,      \* the outcome each declared rule will have, by declaration order
  ruleState,  \* each rule's run: "idle" | "pending" | "fulfilled" | "rejected"
  joined,     \* Promise.all over the rules' runs: its state and reason
  contexts,   \* the violations recorded on the request, in recording order
  vPc,        \* validate middleware: "idle" | "start" | "awaiting" | "done";
              \*   handleValidationErrors: "idle" | "ready" | "done"
  checked,    \* whether the route's validation middleware has read the
              \*   violations recorded on the request
  violations, \* the violation list as that middleware read it
  nextLog,    \* the calls made to next by the validation layer, in order
  hPc,        \* the route's handler: "idle" | "ready" | "done"
  hFault,     \* the failure the handler's own work will raise, if any
  procEnv,    \* process.env: PORT, DATABASE_URL, JWT_SECRET
  envFile,    \* the .env file as loadEnvConfig found it (Unread before)
  cfgFile,    \* config/<environment>.json as it was found (Unread before)
  config,     \* configManager.config
  isLoaded,   \* configManager.isLoaded
  loadPc,     \* the calls of the loader's asynchronous methods, in call
              \*   order: for each the method called, the environment its
              \*   loadEnvironmentConfig took, and where it is at,
              \*   "readingEnv" | "readingConfig" | "validating" | "loaded" |
              \*   "rejected" | "failed" | "returned"
  loads,      \* the number of those calls so far
  loadError,  \* the message the last loadConfig() to end rejected with
              \*   ("" when it completed, or none has ended)
  server,     \* the HTTP server: "idle" | "listening" | "closing" |
              \*   "closed"
  proc,       \* the process: "running" | "exit0" | "exit1"
  got,        \* the outcome of the last call of configManager.get, getAll
              \*   or validateConfig by a client
  wrapped,    \* how the function given to asyncHandler behaves when called
  ahPc,       \* asyncHandler(fn)(req, res, next): "idle" | "ready" |
              \*   "attached" | "done" | "escaped"
  promise,    \* Promise.resolve(fn(req, res, next)): its state and reason
  ahLog,      \* the calls next received in the wrapped route, with callers
  escaped     \* the exception that left asyncHandler's middleware, if any

reqVars == <<route, rules, ruleState, joined, contexts, vPc, checked, violations,
             nextLog, hPc, hFault>>
cfgVars == <<procEnv, envFile, cfgFile, config, isLoaded, loadPc, loads,
             loadError, server, proc, got>>
ahVars == <<wrapped, ahPc, promise, ahLog, escaped>>
vars == <<raised, err, nodeEnv, ehPc, ehNext, logged, res, route, rules,
          ruleState, joined, contexts, vPc, checked, violations, nextLog, hPc,
          hFault, procEnv, envFile, cfgFile, config, isLoaded, loadPc, loads,
          loadError, server, proc, got, wrapped, ahPc, promise, ahLog,
          escaped>>

-----------------------------------------------------------------------------
(* Bounds of the model.                                                    *)

\* longest errors collection of a failure record
MaxErrors == 2

\* most calls of the loader's asynchronous methods in one run of the
\* process, the loadConfig() of the import included
MaxLoads == 2

\* most rules declared for one route
MaxRules == 3

\* most validators of one rule that fail on one request
MaxFails == 2

-----------------------------------------------------------------------------
(* JavaScript values.                                                      *)

\* undefined where a string is expected (an absent property)
Undefined == "<undefined>"

\* a number property that is absent is modelled as 0: every read of
\* statusCode and code in the source (x || d, x === 11000, String(x)) treats
\* undefined and 0 alike
NoNumber == 0

\* the serialisation of the empty object literal {}
EmptyObject == "{}"

RECURSIVE FirstDigit(_)
\* the first character of String(n) for a positive integer n
FirstDigit(n) == IF n < 10 THEN n ELSE FirstDigit(n \div 10)

\* String(statusCode).startsWith('4')
StartsWith4(statusCode) == statusCode > 0 /\ FirstDigit(statusCode) = 4

\* the stack of an Error constructed with this message: V8's header is
\* "Error: <message>", or the name alone when the message is empty, and the
\* frames follow
StackOf(message) ==
  IF message = "" THEN "Error at <frames>"
  ELSE "Error: " \o message \o " at <frames>"

RECURSIVE Join(_)
\* Array.prototype.join(', ')
Join(msgs) ==
  IF Len(msgs) = 0 THEN ""
  ELSE IF Len(msgs) = 1 THEN msgs[1]
  ELSE msgs[1] \o ", " \o Join(Tail(msgs))

\* whether a property key is an array index ("0", "1", ...): Object.values
\* lists those first, in ascending numeric order, then the other keys in
\* insertion order
IndexOfKey(key) == CASE key = "0" -> 0 [] key = "1" -> 1 [] OTHER -> -1

RECURSIVE SelectSeqBy(_, _)
\* the entries of an insertion-ordered property list that are (wantIndex)
\* or are not array-index keys, insertion order kept
SelectSeqBy(entries, wantIndex) ==
  IF Len(entries) = 0 THEN <<>>
  ELSE LET rest == SelectSeqBy(Tail(entries), wantIndex)
       IN IF (IndexOfKey(entries[1].key) >= 0) = wantIndex
          THEN <<entries[1]>> \o rest ELSE rest

RECURSIVE SortByIndex(_)
\* ascending numeric order of array-index keys (insertion sort)
SortByIndex(entries) ==
  IF Len(entries) <= 1 THEN entries
  ELSE LET sorted == SortByIndex(Tail(entries))
           smaller == SelectSeq(sorted, LAMBDA x :
                        IndexOfKey(x.key) < IndexOfKey(entries[1].key))
           larger  == SelectSeq(sorted, LAMBDA x :
                        IndexOfKey(x.key) > IndexOfKey(entries[1].key))
       IN smaller \o <<entries[1]>> \o larger

\* Object.values(err.errors).map(val => val.message)
ObjectValuesMessages(entries) ==
  LET ordered == SortByIndex(SelectSeqBy(entries, TRUE))
                   \o SelectSeqBy(entries, FALSE)
  IN [i \in 1..Len(ordered) |-> ordered[i].message]

-----------------------------------------------------------------------------
(* src/middleware/errorHandler.js                                          *)

\* new AppError(message, statusCode): name is inherited ("Error"),
\* message and stack are own, non-enumerable properties of the instance
AppError(message, statusCode) ==
  [name |-> "Error", message |-> message, statusCode |-> statusCode,
   isOperational |-> TRUE,
   status |-> IF StartsWith4(statusCode) THEN "fail" ELSE "error",
   code |-> NoNumber, hasErrors |-> FALSE, errors |-> <<>>,
   stack |-> StackOf(message), isInstance |-> TRUE]

\* lines 37-38: the defaults are written into the caller's object
Normalize(e) ==
  [e EXCEPT !.statusCode = IF e.statusCode # NoNumber THEN e.statusCode ELSE 500,
            !.message = IF e.message # "" THEN e.message
                        ELSE "Internal Server Error"]

\* lines 40-44: { ...err } copies the own enumerable properties into a plain
\* object (the non-enumerable stack is not copied), then message and
\* statusCode are assigned
SpreadCopy(e) == [e EXCEPT !.stack = Undefined, !.isInstance = FALSE]

\* a variant of Classify in which the tests are chained with else
ClassifyElseIf(e, error) ==
  IF e.name = "CastError" THEN AppError("Invalid ID format", 400)
  ELSE IF e.code = 11000 THEN AppError("Duplicate field value entered", 400)
  ELSE IF e.name = "ValidationError"
       THEN AppError(Join(ObjectValuesMessages(e.errors)), 400)
  ELSE IF e.name = "JsonWebTokenError" THEN AppError("Invalid token", 401)
  ELSE IF e.name = "TokenExpiredError" THEN AppError("Token expired", 401)
  ELSE error

\* lines 46-71: five independent if statements, each overwriting error
Classify(e, error) ==
  LET e1 == IF e.name = "CastError"
            THEN AppError("Invalid ID format", 400) ELSE error
      e2 == IF e.code = 11000
            THEN AppError("Duplicate field value entered", 400) ELSE e1
      e3 == IF e.name = "ValidationError"
            THEN AppError(Join(ObjectValuesMessages(e.errors)), 400) ELSE e2
      e4 == IF e.name = "JsonWebTokenError"
            THEN AppError("Invalid token", 401) ELSE e3
      e5 == IF e.name = "TokenExpiredError"
            THEN AppError("Token expired", 401) ELSE e4
  IN e5

\* line 58: Object.values(undefined) throws a TypeError
ClassifyThrows(e) == e.name = "ValidationError" /\ ~e.hasErrors

\* JSON.stringify of error: the own enumerable properties
Enumerable(error) ==
  IF error.isInstance
  THEN [error EXCEPT !.message = Undefined, !.stack = Undefined]
  ELSE error

\* lines 79-84: the body handed to res.json
ResponseBody(error, env) ==
  [status  |-> error.status,
   error   |-> Enumerable(error),
   message |-> error.message,
   stack   |-> IF env = "development" THEN error.stack ELSE EmptyObject]

\* lines 35-85: the outcome of one call errorHandler(err, req, res, next)
errorHandler(e, env) ==
  LET e0    == Normalize(e)
      error == Classify(e0, SpreadCopy(e0))
  IN IF ClassifyThrows(e0)
     THEN [threw |-> TRUE, err |-> e0, logged |-> FALSE, nextCalls |-> 0,
           written |-> FALSE, statusCode |-> 0, body |-> <<>>]
     ELSE [threw |-> FALSE, err |-> e0, logged |-> env = "development",
           nextCalls |-> 0, written |-> TRUE,
           statusCode |-> error.statusCode,
           body |-> ResponseBody(error, env)]

-----------------------------------------------------------------------------
(* The failure records and build modes the model feeds to errorHandler.    *)

Names == {"Error", "CastError", "ValidationError", "JsonWebTokenError",
          "TokenExpiredError"}
Codes == {NoNumber, 11000, 11001}
StatusCodes == {NoNumber, 400, 404, 500, 503}
Messages == {"", "connect ECONNREFUSED db:5432"}
FieldKeys == {"email", "name", "0"}
FieldMessages == {"Path email is required.", "Name too short"}
NodeEnvs == {"development", "production", "test"}

\* the insertion-ordered errors collections: distinct keys, at most
\* MaxErrors of them
ErrorCollections ==
  { s \in UNION { [1..n -> [key : FieldKeys, message : FieldMessages]]
                  : n \in 0..MaxErrors } :
      \A i, j \in 1..Len(s) : i # j => s[i].key # s[j].key }

\* errors thrown by libraries and handlers: Error instances with any name,
\* code, statusCode and message, and no own status
PlainErrors ==
  { [name |-> n, message |-> m, statusCode |-> s, isOperational |-> FALSE,
     status |-> Undefined, code |-> c, hasErrors |-> FALSE, errors |-> <<>>,
     stack |-> StackOf(m), isInstance |-> TRUE]
    : n \in Names, m \in Messages, s \in StatusCodes, c \in Codes }

\* the same, carrying an errors collection (a Mongoose ValidationError)
ErrorsWithCollection ==
  { [e EXCEPT !.hasErrors = TRUE, !.errors = coll]
    : e \in { p \in PlainErrors : p.message # "" /\ p.statusCode = NoNumber },
      coll \in ErrorCollections }

\* new AppError(message, statusCode) raised by a handler
AppErrors == { AppError(m, s) : m \in Messages, s \in StatusCodes }

FailureRecords == PlainErrors \cup ErrorsWithCollection \cup AppErrors

\* a plain Error instance
PlainError(name, message, statusCode, code) ==
  [name |-> name, message |-> message, statusCode |-> statusCode,
   isOperational |-> FALSE, status |-> Undefined, code |-> code,
   hasErrors |-> FALSE, errors |-> <<>>, stack |-> StackOf(message),
   isInstance |-> TRUE]

\* no failure has been raised
NoFailure == PlainError("<none>", "", NoNumber, NoNumber)

\* Promise.all has not been called
NotJoined == [state |-> "idle", reason |-> 0]

\* a configuration value as JSON.parse yields it: undefined, a number or a
\* string. A number is n + d/10 with d in 0..9 (d = 0 for an integer); a
\* string is the sequence of its characters.
Undef == [t |-> "undefined", n |-> 0, d |-> 0, s |-> <<>>]
Num(n) == [t |-> "number", n |-> n, d |-> 0, s |-> <<>>]
Str(s) == [t |-> "string", n |-> 0, d |-> 0, s |-> s]

\* this.config = {} of the constructor: no key is set
EmptyConfig ==
  [port |-> Undef, databaseUrl |-> Undef, jwtSecret |-> Undef,
   jwtExpiration |-> Undef, environment |-> Undef]

NoEnvVars == [PORT |-> Undefined, DATABASE_URL |-> Undefined,
              JWT_SECRET |-> Undefined]

\* a file that has not been read yet
Unread == [state |-> "unread"]


\* neither get nor getAll has been called
NoGet == [op |-> "none", key |-> "", threw |-> FALSE, value |-> Undef]

\* the configuration module and the server are not part of the run
ConfigIdle ==
  /\ procEnv = NoEnvVars
  /\ envFile = Unread
  /\ cfgFile = Unread
  /\ config = EmptyConfig
  /\ isLoaded = FALSE
  /\ loadPc = <<>>
  /\ loads = 0
  /\ loadError = ""
  /\ server = "idle"
  /\ proc = "running"
  /\ got = NoGet

\* no promise: Promise.resolve has not been called
NoPromise == [state |-> "none", reason |-> NoFailure]


\* no route wrapped by asyncHandler is part of the run
AsyncIdle ==
  /\ wrapped = [kind |-> "none", failure |-> NoFailure, callsNext |-> FALSE]
  /\ ahPc = "idle"
  /\ promise = NoPromise
  /\ ahLog = <<>>
  /\ escaped = NoFailure

NoResponse == [count |-> 0, by |-> "none", statusCode |-> 0, body |-> <<>>]

-----------------------------------------------------------------------------
(* errorHandler as the terminal middleware of a request.                   *)

InitErr ==
  /\ raised \in FailureRecords
  /\ err = raised
  /\ nodeEnv \in NodeEnvs
  /\ ehPc = "ready"
  /\ ehNext = 0
  /\ logged = FALSE
  /\ res = NoResponse
  /\ route = "none"
  /\ rules = <<>>
  /\ ruleState = <<>>
  /\ joined = NotJoined
  /\ contexts = <<>>
  /\ vPc = "idle"
  /\ checked = FALSE
  /\ violations = <<>>
  /\ nextLog = <<>>
  /\ hPc = "idle"
  /\ hFault = NoFailure
  /\ ConfigIdle
  /\ AsyncIdle

\* the effect of one call errorHandler(e, req, res, next) on the state
ErrorHandlerEffect(e) ==
  LET out == errorHandler(e, nodeEnv)
  IN /\ err' = out.err
     /\ logged' = out.logged
     /\ ehNext' = ehNext + out.nextCalls
     /\ ehPc' = IF out.threw THEN "threw" ELSE "done"
     /\ res' = IF out.written
               THEN [count |-> res.count + 1, by |-> "errorHandler",
                     statusCode |-> out.statusCode, body |-> out.body]
               ELSE res

\* one call of errorHandler(err, req, res, next)
ErrorHandler ==
  /\ ehPc = "ready"
  /\ ErrorHandlerEffect(err)
  /\ UNCHANGED <<raised, nodeEnv>>
  /\ UNCHANGED reqVars
  /\ UNCHANGED cfgVars
  /\ UNCHANGED ahVars

NextErr == ErrorHandler

ErrSpec == InitErr /\ [][NextErr]_vars

-----------------------------------------------------------------------------
(* src/middleware/validator.js: validate(validations), and the route        *)
(* handler systemInfo behind it; src/controllers/mainController.js: the     *)
(* route POST /api/users.                                                   *)

\* what one rule's run does on this request: it rejects (its validator
\* raised), or it fulfils having recorded fails violations
RuleOutcomes ==
  { [rejects |-> r, fails |-> n] : r \in BOOLEAN, n \in 0..MaxFails }
    \ { o \in [rejects : {TRUE}, fails : 1..MaxFails] : TRUE }

RuleSets == UNION { [1..n -> RuleOutcomes] : n \in 0..MaxRules }

\* POST /api/users lists three validation chains as middleware (name, email,
\* password), each with one validator and its message
UserChains == 3
UserFields == <<"name", "email", "password">>
UserMessages == <<"Name must be between 2 and 50 characters",
                  "Valid email is required",
                  "Password must be at least 8 characters long">>

\* what the three chains do on one request: the built-in validators do not
\* raise, and each chain's validator passes or fails
UserRuleSets == [1..UserChains -> [rejects : {FALSE}, fails : {0, 1}]]

\* the violations rule i records on the request when its run fulfils: one per
\* failing validator of the chain
ViolationsOf(i, outcome) ==
  [j \in 1..outcome.fails |-> [rule |-> i, validator |-> j]]

\* the reason a rule's run rejects with
RuleFault(i) ==
  PlainError("Error", "connect ECONNREFUSED db:5432", NoNumber, NoNumber)

\* the failures systemInfo's own work can raise (none, or an Error with or
\* without a statusCode)
HandlerFaults ==
  {NoFailure,
   PlainError("Error", "connect ECONNREFUSED db:5432", NoNumber, NoNumber),
   PlainError("Error", "", 503, NoNumber)}

\* createError(statusCode, message, details) of utils/errorHandler
createError(statusCode, message, details) ==
  [statusCode |-> statusCode, message |-> message, details |-> details]

\* a variant of ValidateDecision that does not stop at a non-empty violation
\* list: it goes on to next() as if the list were empty
ValidateDecisionNext(errors) ==
  [respond |-> FALSE, statusCode |-> 0, body |-> <<>>, next |-> "next()"]

\* lines 19-28: with violations, respond 422 and return; otherwise next()
ValidateDecision(errors) ==
  IF errors # <<>>
  THEN [respond |-> TRUE, statusCode |-> 422,
        body |-> [success |-> FALSE, message |-> "Validation failed",
                  errors |-> errors],
        next |-> "none"]
  ELSE [respond |-> FALSE, statusCode |-> 0, body |-> <<>>, next |-> "next()"]

\* Promise.all after rule i settled: it rejects with the first rejection and
\* fulfils once every run has fulfilled
JoinAfter(i, states) ==
  IF joined.state # "pending" THEN joined
  ELSE IF states[i] = "rejected" THEN [state |-> "rejected", reason |-> i]
  ELSE IF \A k \in 1..Len(states) : states[k] = "fulfilled"
       THEN [state |-> "fulfilled", reason |-> 0]
  ELSE joined

InitReq ==
  /\ raised = NoFailure
  /\ err = NoFailure
  /\ nodeEnv \in NodeEnvs
  /\ ehPc = "idle"
  /\ ehNext = 0
  /\ logged = FALSE
  /\ res = NoResponse
  /\ route \in {"validate", "users"}
  /\ rules \in IF route = "validate" THEN RuleSets ELSE UserRuleSets
  /\ ruleState = [i \in 1..Len(rules) |-> "idle"]
  /\ joined = NotJoined
  /\ contexts = <<>>
  /\ vPc = IF route = "validate" THEN "start" ELSE "idle"
  /\ checked = FALSE
  /\ violations = <<>>
  /\ nextLog = <<>>
  /\ hPc = "idle"
  /\ hFault \in IF route = "validate" THEN HandlerFaults ELSE {NoFailure}
  /\ ConfigIdle
  /\ AsyncIdle

\* line 13, up to the await: every rule's run is started, in declaration
\* order, and Promise.all is awaited
ValidateStart ==
  /\ route = "validate"
  /\ vPc = "start"
  /\ ruleState' = [i \in 1..Len(rules) |-> "pending"]
  /\ joined' = IF rules = <<>> THEN [state |-> "fulfilled", reason |-> 0]
               ELSE [state |-> "pending", reason |-> 0]
  /\ vPc' = "awaiting"
  /\ UNCHANGED <<raised, err, nodeEnv, ehPc, ehNext, logged, res, route, rules,
                 contexts, checked, violations, nextLog, hPc, hFault>>
  /\ UNCHANGED cfgVars
  /\ UNCHANGED ahVars

\* validation.run(req) of rule i settles: on fulfilment its violations are
\* appended to the request's record; the runs settle in any order
RuleSettle(i) ==
  /\ route = "validate"
  /\ i \in 1..Len(rules)
  /\ ruleState[i] = "pending"
  /\ ruleState' = [ruleState EXCEPT ![i] =
                     IF rules[i].rejects THEN "rejected" ELSE "fulfilled"]
  /\ contexts' = IF rules[i].rejects THEN contexts
                 ELSE contexts \o ViolationsOf(i, rules[i])
  /\ joined' = JoinAfter(i, ruleState')
  /\ UNCHANGED <<raised, err, nodeEnv, ehPc, ehNext, logged, res, route, rules,
                 vPc, checked, violations, nextLog, hPc, hFault>>
  /\ UNCHANGED cfgVars
  /\ UNCHANGED ahVars

\* lines 13-32, after the await: Promise.all rejected, so the catch block
\* calls next(error), which runs errorHandler; or it fulfilled, so the
\* violations are read and either the 422 response is written or next() runs
ValidateResume ==
  /\ vPc = "awaiting"
  /\ joined.state \in {"fulfilled", "rejected"}
  /\ vPc' = "done"
  /\ IF joined.state = "rejected"
     THEN /\ nextLog' = Append(nextLog, "next(error)")
          /\ raised' = RuleFault(joined.reason)
          /\ ErrorHandlerEffect(RuleFault(joined.reason))
          /\ UNCHANGED <<checked, violations, hPc>>
     ELSE LET errors == contexts
              d == ValidateDecision(errors)
          IN /\ checked' = TRUE
             /\ violations' = errors
             /\ res' = IF d.respond
                       THEN [count |-> res.count + 1, by |-> "validate",
                             statusCode |-> d.statusCode, body |-> d.body]
                       ELSE res
             /\ nextLog' = IF d.next = "none" THEN nextLog
                           ELSE Append(nextLog, d.next)
             /\ hPc' = IF d.next = "next()" THEN "ready" ELSE hPc
             /\ UNCHANGED <<raised, err, ehPc, ehNext, logged>>
  /\ UNCHANGED <<nodeEnv, route, rules, ruleState, joined, contexts, hFault>>
  /\ UNCHANGED cfgVars
  /\ UNCHANGED ahVars

\* POST /api/users, lines 236-240: the next validation chain in declaration
\* order is called as a middleware and starts its run on the request
ChainMiddleware ==
  /\ route = "users"
  /\ \E i \in 1..UserChains :
       /\ ruleState[i] = "idle"
       /\ Len(nextLog) = i - 1
       /\ ruleState' = [ruleState EXCEPT ![i] = "pending"]
  /\ UNCHANGED <<raised, err, nodeEnv, ehPc, ehNext, logged, res, route, rules,
                 joined, contexts, vPc, checked, violations, nextLog, hPc,
                 hFault>>
  /\ UNCHANGED cfgVars
  /\ UNCHANGED ahVars

\* the chain's run settles: its violation, if any, is appended to the
\* request's record and the chain middleware calls next(); after the last
\* chain that enters handleValidationErrors
ChainResume ==
  /\ route = "users"
  /\ \E i \in 1..UserChains :
       /\ ruleState[i] = "pending"
       /\ ruleState' = [ruleState EXCEPT ![i] = "fulfilled"]
       /\ contexts' = contexts \o ViolationsOf(i, rules[i])
       /\ nextLog' = Append(nextLog, "next()")
       /\ vPc' = IF i = UserChains THEN "ready" ELSE vPc
  /\ UNCHANGED <<raised, err, nodeEnv, ehPc, ehNext, logged, res, route, rules,
                 joined, checked, violations, hPc, hFault>>
  /\ UNCHANGED cfgVars
  /\ UNCHANGED ahVars

\* the field-validation failure handed to the classifier: it carries one
\* entry per violation, keyed by field, in the order they were recorded
FieldValidationFailure(errors) ==
  [PlainError("ValidationError", "Validation failed", NoNumber, NoNumber)
     EXCEPT !.hasErrors = TRUE,
            !.errors = [k \in 1..Len(errors) |->
                          [key |-> UserFields[errors[k].rule],
                           message |-> UserMessages[errors[k].rule]]]]

\* line 241: handleValidationErrors of middleware/validation, as the
\* specification describes the validator adapter (section 4.2): with a
\* non-empty violation list control is diverted to the classifier with a
\* field-validation failure; otherwise the next step proceeds
HandleValidationErrors ==
  /\ route = "users"
  /\ vPc = "ready"
  /\ vPc' = "done"
  /\ checked' = TRUE
  /\ violations' = contexts
  /\ IF contexts # <<>>
     THEN /\ nextLog' = Append(nextLog, "next(error)")
          /\ raised' = FieldValidationFailure(contexts)
          /\ ErrorHandlerEffect(FieldValidationFailure(contexts))
          /\ UNCHANGED hPc
     ELSE /\ nextLog' = Append(nextLog, "next()")
          /\ hPc' = "ready"
          /\ UNCHANGED <<raised, err, ehPc, ehNext, logged, res>>
  /\ UNCHANGED <<nodeEnv, route, rules, ruleState, joined, contexts, hFault>>
  /\ UNCHANGED cfgVars
  /\ UNCHANGED ahVars

\* lines 256-261: the catch block of the create-user handler writes the
\* error response itself
CreateUserCatch(error) ==
  [statusCode |-> 500,
   body |-> [error |-> "Failed to create user", message |-> error.message]]

\* lines 242-262: the handler of POST /api/users. On a request that passed
\* the three chains nothing in its try block raises
CreateUser ==
  /\ route = "users"
  /\ hPc = "ready"
  /\ hPc' = "done"
  /\ LET out == IF hFault # NoFailure THEN CreateUserCatch(hFault)
                ELSE [statusCode |-> 201,
                      body |-> [id |-> "id", name |-> "name",
                                email |-> "email", createdAt |-> "now"]]
     IN res' = [count |-> res.count + 1, by |-> "createUser",
                statusCode |-> out.statusCode, body |-> out.body]
  /\ UNCHANGED <<raised, err, nodeEnv, ehPc, ehNext, logged, route, rules,
                 ruleState, joined, contexts, vPc, checked, violations,
                 nextLog, hFault>>
  /\ UNCHANGED cfgVars
  /\ UNCHANGED ahVars

\* the failure systemInfo's try block raises, if any: the validation
\* failure of line 47, or a fault of its own work
SystemInfoFailure(errors, fault) ==
  IF errors # <<>> THEN createError(400, "Validation failed", errors)
  ELSE [statusCode |-> fault.statusCode, message |-> fault.message,
        details |-> <<>>]

\* lines 67-72: the catch block writes the error response itself
SystemInfoCatch(error) ==
  [statusCode |-> IF error.statusCode # NoNumber THEN error.statusCode ELSE 500,
   body |-> [status |-> "error",
             message |-> IF error.message # "" THEN error.message
                         ELSE "Internal server error"]]

\* mainController.js lines 42-74: systemInfo(req, res)
SystemInfo ==
  /\ route = "validate"
  /\ hPc = "ready"
  /\ hPc' = "done"
  /\ LET errors == contexts
         failed == errors # <<>> \/ hFault # NoFailure
         out == IF failed
                THEN SystemInfoCatch(SystemInfoFailure(errors, hFault))
                ELSE [statusCode |-> 200,
                      body |-> [status |-> "success", data |-> "systemData"]]
     IN res' = [count |-> res.count + 1, by |-> "systemInfo",
                statusCode |-> out.statusCode, body |-> out.body]
  /\ UNCHANGED <<raised, err, nodeEnv, ehPc, ehNext, logged, route, rules,
                 ruleState, joined, contexts, vPc, checked, violations,
                 nextLog, hFault>>
  /\ UNCHANGED cfgVars
  /\ UNCHANGED ahVars

NextReq ==
  \/ ValidateStart
  \/ \E i \in 1..MaxRules : RuleSettle(i)
  \/ ValidateResume
  \/ ChainMiddleware
  \/ ChainResume
  \/ HandleValidationErrors
  \/ SystemInfo
  \/ CreateUser

ReqSpec == InitReq /\ [][NextReq]_vars

-----------------------------------------------------------------------------
(* src/controllers/mainController.js: ConfigManager, loaded when the       *)
(* module is imported; src/README.md: Server.start.                        *)

\* JavaScript truthiness of a configuration value
Truthy(v) ==
  \/ v.t = "number" /\ (v.n # 0 \/ v.d # 0)
  \/ v.t = "string" /\ v.s # <<>>

\* the characters of the strings the model writes out
Text24h == <<"2", "4", "h">>
TextMongoPrefix == <<"m", "o", "n", "g", "o", "d", "b", ":", "/", "/">>

\* the characters of an environment name
Chars(name) ==
  CASE name = "development" ->
         <<"d", "e", "v", "e", "l", "o", "p", "m", "e", "n", "t">>
    [] name = "production" ->
         <<"p", "r", "o", "d", "u", "c", "t", "i", "o", "n">>
    [] name = "test" -> <<"t", "e", "s", "t">>
    [] OTHER -> <<>>

\* String.prototype.startsWith
StartsWith(s, prefix) ==
  Len(s) >= Len(prefix) /\ SubSeq(s, 1, Len(prefix)) = prefix

\* the values a number converted from text is held to: magnitudes above it
\* compare like it
NumberCap == 1000000

DecimalDigits == <<"0", "1", "2", "3", "4", "5", "6", "7", "8", "9">>
HexDigits ==
  DecimalDigits \o <<"a", "b", "c", "d", "e", "f">>

\* the value of the digit c in the digit list, or -1 when it is not in it
DigitIn(c, digits) ==
  IF \E i \in 1..Len(digits) : digits[i] = c
  THEN (CHOOSE i \in 1..Len(digits) : digits[i] = c) - 1
  ELSE 0 - 1

\* v when it is a digit of the radix, or -1
DigitOf(v, radix) == IF v >= 0 /\ v < radix THEN v ELSE 0 - 1

\* the value of c as a digit of the radix, or -1
DigitValue(c, radix) ==
  DigitOf(IF DigitIn(c, HexDigits) >= 0 THEN DigitIn(c, HexDigits)
          ELSE DigitIn(c, DecimalDigits
                             \o <<"A", "B", "C", "D", "E", "F">>),
          radix)

\* StrWhiteSpaceChar: the white space and line terminator characters. A
\* character is a string of length one; one that cannot be written so is
\* named by its code point (U+000B is the vertical tab)
IsSpace(c) ==
  c \in {"\t", "U+000B", "\f", " ", "U+00A0", "U+FEFF", "U+1680", "U+2000",
         "U+2001", "U+2002", "U+2003", "U+2004", "U+2005", "U+2006",
         "U+2007", "U+2008", "U+2009", "U+200A", "U+202F", "U+205F",
         "U+3000", "\n", "\r", "U+2028", "U+2029"}

RECURSIVE TrimStart(_)
TrimStart(s) ==
  IF s # <<>> /\ IsSpace(Head(s)) THEN TrimStart(Tail(s)) ELSE s

RECURSIVE TrimEnd(_)
TrimEnd(s) ==
  IF s # <<>> /\ IsSpace(s[Len(s)]) THEN TrimEnd(SubSeq(s, 1, Len(s) - 1))
  ELSE s

RECURSIVE LeadingDigits(_, _)
\* the number of leading characters of s that are digits of the radix
LeadingDigits(s, radix) ==
  IF s # <<>> /\ DigitValue(Head(s), radix) >= 0
  THEN 1 + LeadingDigits(Tail(s), radix)
  ELSE 0

RECURSIVE DigitsValue(_, _, _)
\* the value of a digit string read after the value acc, held to NumberCap
DigitsValue(s, radix, acc) ==
  IF s = <<>> THEN acc
  ELSE LET v == acc * radix + DigitValue(Head(s), radix)
       IN DigitsValue(Tail(s), radix, IF v > NumberCap THEN NumberCap ELSE v)

RECURSIVE TimesPowerOfTen(_, _)
\* v * 10^k, held to NumberCap
TimesPowerOfTen(v, k) ==
  IF k = 0 \/ v = 0 \/ v >= NumberCap
  THEN (IF v > NumberCap THEN NumberCap ELSE v)
  ELSE TimesPowerOfTen(v * 10, k - 1)

\* the digits of a digit string, as numbers
Digits(s) == [i \in 1..Len(s) |-> DigitValue(s[i], 10)]

\* a number by its mathematical value: NaN, or a sign and a magnitude of
\* floor + 0.0...0d1d2..., with zeros zeros before the digits frac. The
\* floor is held to NumberCap
NaN == [nan |-> TRUE, negative |-> FALSE, floor |-> 0, zeros |-> 0,
        frac |-> <<>>]
Number(negative, floor, zeros, frac) ==
  [nan |-> FALSE, negative |-> negative, floor |-> floor, zeros |-> zeros,
   frac |-> frac]

\* the value of a decimal literal: the digits of its mantissa, with the
\* decimal point after the first point of them
DecimalValue(negative, mantissa, point) ==
  IF mantissa = <<>> THEN NaN
  ELSE IF point <= 0 THEN Number(negative, 0, 0 - point, Digits(mantissa))
  ELSE IF point >= Len(mantissa)
  THEN Number(negative,
              TimesPowerOfTen(DigitsValue(mantissa, 10, 0),
                              point - Len(mantissa)),
              0, <<>>)
  ELSE Number(negative,
              DigitsValue(SubSeq(mantissa, 1, point), 10, 0),
              0, Digits(SubSeq(mantissa, point + 1, Len(mantissa))))

\* the digits of an ExponentPart: at least one, and nothing after them
ExponentDigits(negative, mantissa, i, expNegative, expDigits) ==
  IF expDigits # <<>> /\ LeadingDigits(expDigits, 10) = Len(expDigits)
  THEN DecimalValue(negative, mantissa,
                    IF expNegative THEN i - DigitsValue(expDigits, 10, 0)
                    ELSE i + DigitsValue(expDigits, 10, 0))
  ELSE NaN

\* what follows the mantissa: nothing, or e or E, an optional sign and the
\* exponent's digits
ExponentPart(negative, mantissa, i, rest) ==
  IF rest = <<>> THEN DecimalValue(negative, mantissa, i)
  ELSE IF Head(rest) \notin {"e", "E"} THEN NaN
  ELSE IF Len(rest) >= 2 /\ rest[2] \in {"+", "-"}
  THEN ExponentDigits(negative, mantissa, i, rest[2] = "-",
                      SubSeq(rest, 3, Len(rest)))
  ELSE ExponentDigits(negative, mantissa, i, FALSE, Tail(rest))

\* the fraction of a literal whose first i characters are digits: the f
\* digits after the character at p (the point, or the last integer digit)
FractionPart(negative, s, i, p, f) ==
  ExponentPart(negative, SubSeq(s, 1, i) \o SubSeq(s, p + 1, p + f), i,
               SubSeq(s, p + f + 1, Len(s)))

\* what follows the i leading digits of a literal: an optional point and
\* fraction digits
IntegerPart(negative, s, i) ==
  IF i < Len(s) /\ s[i + 1] = "."
  THEN FractionPart(negative, s, i, i + 1,
                    LeadingDigits(SubSeq(s, i + 2, Len(s)), 10))
  ELSE FractionPart(negative, s, i, i, 0)

\* StrUnsignedDecimalLiteral: digits, an optional fraction and an optional
\* exponent, at least one digit in the mantissa
UnsignedDecimal(negative, s) == IntegerPart(negative, s, LeadingDigits(s, 10))

\* the digits of a 0x, 0o or 0b literal: at least one, all of the radix
RadixDigits(digits, radix) ==
  IF digits # <<>> /\ LeadingDigits(digits, radix) = Len(digits)
  THEN Number(FALSE, DigitsValue(digits, radix, 0), 0, <<>>)
  ELSE NaN

\* 0x, 0o and 0b literals: no sign, at least one digit of the radix
Radix(s, radix) == RadixDigits(SubSeq(s, 3, Len(s)), radix)

\* StrDecimalLiteral after its sign: Infinity or an unsigned literal
SignedLiteral(negative, body) ==
  IF body = <<"I", "n", "f", "i", "n", "i", "t", "y">>
  THEN Number(negative, NumberCap, 0, <<>>)
  ELSE UnsignedDecimal(negative, body)

\* StringNumericLiteral without the white space around it
TrimmedToNumber(s) ==
  IF s = <<>> THEN Number(FALSE, 0, 0, <<>>)
  ELSE IF Len(s) >= 2 /\ s[1] = "0" /\ s[2] \in {"x", "X"} THEN Radix(s, 16)
  ELSE IF Len(s) >= 2 /\ s[1] = "0" /\ s[2] \in {"o", "O"} THEN Radix(s, 8)
  ELSE IF Len(s) >= 2 /\ s[1] = "0" /\ s[2] \in {"b", "B"} THEN Radix(s, 2)
  ELSE IF Head(s) \in {"+", "-"} THEN SignedLiteral(Head(s) = "-", Tail(s))
  ELSE SignedLiteral(FALSE, s)

\* Number(text): StringToNumber of ECMAScript on the characters of a string
StringToNumber(text) == TrimmedToNumber(TrimEnd(TrimStart(text)))

\* the number n + d/10 that JSON.parse yielded
ParsedNumber(n, d) ==
  IF n >= 0 THEN Number(FALSE, n, 0, IF d = 0 THEN <<>> ELSE <<d>>)
  ELSE IF d = 0 THEN Number(TRUE, 0 - n, 0, <<>>)
  ELSE Number(TRUE, 0 - n - 1, 0, <<10 - d>>)

\* Number(v) for a configuration value
ToNumeric(v) ==
  CASE v.t = "number" -> ParsedNumber(v.n, v.d)
    [] v.t = "string" -> StringToNumber(v.s)
    [] v.t = "null" -> Number(FALSE, 0, 0, <<>>)
    [] OTHER -> NaN

\* isNaN(v)
IsNaN(v) == ToNumeric(v).nan

\* A Number value is a double: the mathematical value rounded to the
\* nearest value with a significand of SignificandBits bits, ties to the
\* even significand.
SignificandBits == 53

RECURSIVE HalveFrom(_, _)
\* the digits of half of r + 0.d1d2..., for a carry r of 0 or 1
HalveFrom(digits, r) ==
  IF digits = <<>> THEN (IF r = 1 THEN <<5>> ELSE <<>>)
  ELSE <<(r * 10 + Head(digits)) \div 2>>
         \o HalveFrom(Tail(digits), (r * 10 + Head(digits)) % 2)

RECURSIVE PowersOfHalfUpTo(_, _)
\* the table of the first n powers of 1/2, from the table of the first
\* Len(table) of them
PowersOfHalfUpTo(table, n) ==
  IF Len(table) >= n THEN table
  ELSE PowersOfHalfUpTo(Append(table, HalveFrom(table[Len(table)], 0)), n)

\* the fraction digits of 2^-m, for m in 1..SignificandBits + 1
PowersOfHalf == PowersOfHalfUpTo(<< <<5>> >>, SignificandBits + 1)

RECURSIVE Log2Floor(_)
\* the exponent of the binade of the integer k >= 1
Log2Floor(k) == IF k < 2 THEN 0 ELSE 1 + Log2Floor(k \div 2)

\* half the distance from the integer k to the next double above it, and
\* to the next one below it (which lies in the binade below when k is a
\* power of two), as fraction digits
HalfUlpAbove(k) == PowersOfHalf[SignificandBits - Log2Floor(k)]
HalfUlpBelow(k) ==
  IF 2 ^ Log2Floor(k) = k
  THEN PowersOfHalf[SignificandBits + 1 - Log2Floor(k)]
  ELSE PowersOfHalf[SignificandBits - Log2Floor(k)]

\* the fraction digits of 1 - 0.d1d2...dn, for dn not 0
OneMinus(digits) ==
  [i \in 1..Len(digits) |->
     IF i = Len(digits) THEN 10 - digits[i] ELSE 9 - digits[i]]

\* the j-th fraction digit of the magnitude of x
FractionDigit(x, j) ==
  IF j <= x.zeros \/ j > x.zeros + Len(x.frac) THEN 0
  ELSE x.frac[j - x.zeros]

RECURSIVE FractionCompare(_, _, _)
\* the fraction of the magnitude of x against 0.t1t2..., from digit j on:
\* -1 when it is smaller, 0 when equal, 1 when greater
FractionCompare(x, t, j) ==
  IF j > Len(t) /\ j > x.zeros + Len(x.frac) THEN 0
  ELSE IF j > Len(t)
  THEN (IF FractionDigit(x, j) > 0 THEN 1 ELSE FractionCompare(x, t, j + 1))
  ELSE IF FractionDigit(x, j) < t[j] THEN 0 - 1
  ELSE IF FractionDigit(x, j) > t[j] THEN 1
  ELSE FractionCompare(x, t, j + 1)

\* x < k and x > k for a number x and an integer k in 1..NumberCap - 1:
\* false when x is NaN. The double of x is below k when x is below the
\* midpoint of k and the double before it, and above k when x is above
\* the midpoint of k and the double after it: a tie rounds to k, whose
\* significand is even
NumberLess(x, k) ==
  /\ ~x.nan
  /\ \/ x.negative
     \/ x.floor < k - 1
     \/ /\ x.floor = k - 1
        /\ FractionCompare(x, OneMinus(HalfUlpBelow(k)), 1) < 0
NumberGreater(x, k) ==
  /\ ~x.nan
  /\ ~x.negative
  /\ \/ x.floor > k
     \/ /\ x.floor = k
        /\ FractionCompare(x, HalfUlpAbove(k), 1) > 0

\* v < k and v > k of JavaScript for an integer k: the value is converted
\* to a number first
LessThan(v, k) == NumberLess(ToNumeric(v), k)
GreaterThan(v, k) == NumberGreater(ToNumeric(v), k)

\* lines 417-421
RequiredKeys == <<"port", "databaseUrl", "jwtSecret">>

\* line 423: required.filter(key => !this.config[key])
MissingKeys(c) == SelectSeq(RequiredKeys, LAMBDA key : ~Truthy(c[key]))

\* lines 416-442: validateConfig(); the message of the Error it throws, or
\* "" when it returns
validateConfig(c) ==
  IF Len(MissingKeys(c)) > 0
  THEN "Configuracion incompleta. Faltan: " \o Join(MissingKeys(c))
  ELSE IF Truthy(c.port)
          /\ (LessThan(c.port, 1) \/ GreaterThan(c.port, 65535))
  THEN "Puerto invalido. Debe estar entre 1 y 65535"
  ELSE IF c.databaseUrl.t # "string"
  THEN "this.config.databaseUrl.startsWith is not a function"
  ELSE IF ~StartsWith(c.databaseUrl.s, TextMongoPrefix)
          /\ ~StartsWith(c.databaseUrl.s,
                         <<"p", "o", "s", "t", "g", "r", "e", "s", ":", "/",
                           "/">>)
  THEN "URL de base de datos invalida. Debe ser MongoDB o PostgreSQL"
  ELSE IF Truthy(c.jwtExpiration) /\ IsNaN(c.jwtExpiration)
  THEN "jwtExpiration debe ser un numero valido"
  ELSE ""

\* lines 345-348: loadConfig's catch block wraps the message
WrapLoadError(message) == "Error de configuracion: " \o message

\* a .env file that sets none of the variables modelled
NoEnvFileVars ==
  [NODE_ENV |-> Undefined, PORT |-> Undefined, DATABASE_URL |-> Undefined,
   JWT_SECRET |-> Undefined]

\* the variables a present .env file sets (lines 362-369)
EnvFileVars ==
  {NoEnvFileVars,
   [NODE_ENV |-> "production", PORT |-> "3000",
    DATABASE_URL |-> "mongodb://localhost:27017/app", JWT_SECRET |-> "s3cret"]}

\* the .env file as the read finds it: absent (ENOENT), unreadable (any
\* other error) or present
EnvFiles ==
  {[state |-> "absent", vars |-> NoEnvFileVars],
   [state |-> "unreadable", vars |-> NoEnvFileVars]}
    \cup { [state |-> "ok", vars |-> v] : v \in EnvFileVars }

\* a settings file that sets none of the keys modelled
NoContent ==
  [port |-> Undef, databaseUrl |-> Undef, jwtSecret |-> Undef,
   jwtExpiration |-> Undef]

\* a settings file validateConfig accepts
GoodContent ==
  [port |-> Num(3000),
   databaseUrl |-> Str(TextMongoPrefix \o <<"d", "b", "/", "a", "p", "p">>),
   jwtSecret |-> Str(<<"s", "3", "c", "r", "e", "t">>),
   jwtExpiration |-> Num(3600)]

\* the contents of config/<environment>.json the model reads: the accepted
\* file, the files that differ from it in one key, the file that sets
\* nothing and the files that set the port alone
ConfigContents ==
  {GoodContent, NoContent}
    \cup { [GoodContent EXCEPT !.port = v]
           : v \in {Undef, Num(0), Num(0 - 1), Num(70000),
                    [t |-> "number", n |-> 80, d |-> 5, s |-> <<>>],
                    Str(<<"a", "b", "c">>)} }
    \cup { [GoodContent EXCEPT !.databaseUrl = v]
           : v \in {Undef,
                    Str(<<"m", "y", "s", "q", "l", ":", "/", "/", "d", "b">>)} }
    \cup { [GoodContent EXCEPT !.jwtSecret = v] : v \in {Undef, Str(<<>>)} }
    \cup { [GoodContent EXCEPT !.jwtExpiration = v]
           : v \in {Undef, Str(Text24h)} }
    \cup { [NoContent EXCEPT !.port = v] : v \in {Num(8080), Num(70000)} }

ConfigFiles ==
  { [state |-> st, content |-> NoContent] : st \in {"absent", "malformed"} }
    \cup { [state |-> "ok", content |-> c] : c \in ConfigContents }

\* line 371: Object.assign(process.env, envVars), for the variables modelled
AssignEnv(target, source) ==
  [k \in DOMAIN target |->
     IF source[k] # Undefined THEN source[k] ELSE target[k]]

\* lines 395-399: { ...this.config, ...environmentConfig, environment }
MergeConfig(c, content, environment) ==
  [k \in DOMAIN c |->
     IF k = "environment" THEN Str(Chars(environment))
     ELSE IF content[k] # Undef THEN content[k] ELSE c[k]]

\* line 388: process.env.NODE_ENV || 'development', for the value env of
\* NODE_ENV when the line is evaluated
Environment(env) ==
  IF env \notin {Undefined, ""} THEN env ELSE "development"

\* a call of one of the loader's asynchronous methods, suspended at its
\* first read: loadConfig and loadEnvConfig at the read of .env,
\* loadEnvironmentConfig at the read of the settings file, with the
\* constant environment of line 388 it took from NODE_ENV (env) before the
\* read. The constant is undefined while line 388 has not been reached
Called(method, env) ==
  [call |-> method,
   at |-> IF method = "loadEnvironmentConfig" THEN "readingConfig"
          ELSE "readingEnv",
   environment |-> IF method = "loadEnvironmentConfig" THEN Environment(env)
                   ELSE Undefined]

\* the call once its loadEnvConfig() has returned, NODE_ENV being env: a
\* loadConfig goes on to loadEnvironmentConfig() (line 338), which takes
\* its environment from NODE_ENV (line 388) and is suspended at the read of
\* the settings file (line 392); a direct call has returned
AfterEnvConfig(call, env) ==
  IF call.call = "loadConfig"
  THEN [call EXCEPT !.at = "readingConfig", !.environment = Environment(env)]
  ELSE [call EXCEPT !.at = "returned"]

\* where a call is once loadEnvironmentConfig() has returned: loadConfig is
\* about to resume at validateConfig() (line 341), a direct call has
\* returned
AfterEnvironmentConfig(call) ==
  IF call = "loadConfig" THEN "validating" ELSE "returned"

\* lines 507-513 at import: the constructor ran and loadConfig() was called;
\* it is suspended at the read of the .env file. The server is constructed
\* and not started.
InitCfg ==
  /\ raised = NoFailure
  /\ err = NoFailure
  /\ nodeEnv \in {Undefined, "development", "production"}
  /\ ehPc = "idle"
  /\ ehNext = 0
  /\ logged = FALSE
  /\ res = NoResponse
  /\ route = "none"
  /\ rules = <<>>
  /\ ruleState = <<>>
  /\ joined = NotJoined
  /\ contexts = <<>>
  /\ vPc = "idle"
  /\ checked = FALSE
  /\ violations = <<>>
  /\ nextLog = <<>>
  /\ hPc = "idle"
  /\ hFault = NoFailure
  /\ procEnv \in {NoEnvVars,
                   [PORT |-> "3000",
                    DATABASE_URL |-> "mongodb://localhost:27017/app",
                    JWT_SECRET |-> "s3cret"]}
  /\ envFile = Unread
  /\ cfgFile = Unread
  /\ config = EmptyConfig
  /\ isLoaded = FALSE
  /\ loadPc = <<Called("loadConfig", nodeEnv)>>
  /\ loads = 1
  /\ loadError = ""
  /\ server = "idle"
  /\ proc = "running"
  /\ got = NoGet
  /\ AsyncIdle

\* position i of the call list after call i moved to the position at
At(i, at) == [loadPc EXCEPT ![i].at = at]

\* a job queued by a turn of the event loop has not run yet: a loadConfig()
\* is about to resume after loadEnvironmentConfig(), or the handler of
\* lines 510-513 is about to run. The callbacks of the event loop (a read
\* that settles, a signal, the end of server.close) run only when no job
\* is pending; calls made by a client of the module may come from a job
JobsPending ==
  \/ \E i \in 1..loads : loadPc[i].at = "validating"
  \/ loadPc[1].at = "rejected"

\* call i rejects with the message. In loadConfig (lines 345-348) the catch
\* block wraps it and the promise of loadConfig() rejects: the rejection of
\* the call made at import goes to the handler of lines 510-513, which runs
\* in a later job; the rejection of any later call goes to its caller and
\* nothing of the module runs. A method called directly rejects to its
\* caller with its own message
LoadRejected(i, message) ==
  IF loadPc[i].call = "loadConfig"
  THEN /\ loadPc' = At(i, IF i = 1 THEN "rejected" ELSE "failed")
       /\ loadError' = WrapLoadError(message)
  ELSE /\ loadPc' = At(i, "failed")
       /\ UNCHANGED loadError

\* lines 332-336: a client calls loadConfig() on the exported instance,
\* whatever the loads called before are doing; the call runs up to the
\* read of the .env file
LoadConfig ==
  /\ proc = "running"
  /\ loads < MaxLoads
  /\ loads' = loads + 1
  /\ loadPc' = Append(loadPc, Called("loadConfig", nodeEnv))
  /\ UNCHANGED <<raised, err, nodeEnv, ehPc, ehNext, logged, res>>
  /\ UNCHANGED reqVars
  /\ UNCHANGED ahVars
  /\ UNCHANGED <<procEnv, envFile, cfgFile, config, isLoaded, loadError,
                 server, proc, got>>

\* lines 357-360: a client calls loadEnvConfig() on the exported instance
\* (private by its documentation only); the call runs up to the read of
\* the .env file
CallLoadEnvConfig ==
  /\ proc = "running"
  /\ loads < MaxLoads
  /\ loads' = loads + 1
  /\ loadPc' = Append(loadPc, Called("loadEnvConfig", nodeEnv))
  /\ UNCHANGED <<raised, err, nodeEnv, ehPc, ehNext, logged, res>>
  /\ UNCHANGED reqVars
  /\ UNCHANGED ahVars
  /\ UNCHANGED <<procEnv, envFile, cfgFile, config, isLoaded, loadError,
                 server, proc, got>>

\* lines 387-392: a client calls loadEnvironmentConfig() on the exported
\* instance (private by its documentation only); the call runs up to the
\* read of the settings file
CallLoadEnvironmentConfig ==
  /\ proc = "running"
  /\ loads < MaxLoads
  /\ loads' = loads + 1
  /\ loadPc' = Append(loadPc, Called("loadEnvironmentConfig", nodeEnv))
  /\ UNCHANGED <<raised, err, nodeEnv, ehPc, ehNext, logged, res>>
  /\ UNCHANGED reqVars
  /\ UNCHANGED ahVars
  /\ UNCHANGED <<procEnv, envFile, cfgFile, config, isLoaded, loadError,
                 server, proc, got>>

\* lines 357-379 of call i after its read of .env settled; within
\* loadConfig, then lines 388-392 up to the read of the environment's
\* settings file
LoadEnvConfig(i) ==
  /\ proc = "running"
  /\ i <= loads
  /\ loadPc[i].at = "readingEnv"
  /\ ~JobsPending
  /\ \E file \in EnvFiles :
       /\ envFile' = file
       /\ CASE file.state = "ok" ->
                 /\ procEnv' = AssignEnv(procEnv, file.vars)
                 /\ nodeEnv' = IF file.vars.NODE_ENV # Undefined
                               THEN file.vars.NODE_ENV ELSE nodeEnv
                 /\ loadPc' =
                      [loadPc EXCEPT
                         ![i] = AfterEnvConfig(loadPc[i],
                                  IF file.vars.NODE_ENV # Undefined
                                  THEN file.vars.NODE_ENV ELSE nodeEnv)]
                 /\ UNCHANGED loadError
            [] file.state = "absent" ->
                 /\ loadPc' =
                      [loadPc EXCEPT ![i] = AfterEnvConfig(loadPc[i], nodeEnv)]
                 /\ UNCHANGED <<procEnv, nodeEnv, loadError>>
            [] file.state = "unreadable" ->
                 /\ LoadRejected(i, "Error al leer el archivo .env: EACCES")
                 /\ UNCHANGED <<procEnv, nodeEnv>>
  /\ UNCHANGED <<raised, err, ehPc, ehNext, logged, res>>
  /\ UNCHANGED reqVars
  /\ UNCHANGED ahVars
  /\ UNCHANGED <<cfgFile, config, isLoaded, loads, server, proc, got>>

\* lines 392-407 of call i after its read of config/<environment>.json
\* settled, environment being the constant the call took at line 388
\* before the read: the configuration is replaced by the merge (line 395),
\* or only its environment is set (line 403), or the error is rethrown
\* (line 405)
LoadEnvironmentConfig(i) ==
  /\ proc = "running"
  /\ i <= loads
  /\ loadPc[i].at = "readingConfig"
  /\ ~JobsPending
  /\ \E file \in ConfigFiles :
       LET environment == loadPc[i].environment
       IN /\ cfgFile' = file
          /\ CASE file.state = "ok" ->
                    /\ config' = MergeConfig(config, file.content, environment)
                    /\ loadPc' = At(i, AfterEnvironmentConfig(loadPc[i].call))
                    /\ UNCHANGED loadError
               [] file.state = "absent" ->
                    /\ config' =
                         [config EXCEPT !.environment = Str(Chars(environment))]
                    /\ loadPc' = At(i, AfterEnvironmentConfig(loadPc[i].call))
                    /\ UNCHANGED loadError
               [] file.state = "malformed" ->
                    /\ LoadRejected(i,
                         "Error al cargar configuracion de entorno: Unexpected token")
                    /\ UNCHANGED config
  /\ UNCHANGED <<raised, err, nodeEnv, ehPc, ehNext, logged, res>>
  /\ UNCHANGED reqVars
  /\ UNCHANGED ahVars
  /\ UNCHANGED <<procEnv, envFile, isLoaded, loads, server, proc, got>>

\* lines 341-348, when the loadConfig of call i resumes after
\* loadEnvironmentConfig(): validateConfig() returns and isLoaded is set,
\* or it throws and the catch block rethrows
LoadConfigResume(i) ==
  /\ proc = "running"
  /\ i <= loads
  /\ loadPc[i].at = "validating"
  /\ LET problem == validateConfig(config)
     IN IF problem = ""
        THEN /\ isLoaded' = TRUE
             /\ loadPc' = At(i, "loaded")
             /\ loadError' = ""
        ELSE /\ LoadRejected(i, problem)
             /\ UNCHANGED isLoaded
  /\ UNCHANGED <<raised, err, nodeEnv, ehPc, ehNext, logged, res>>
  /\ UNCHANGED reqVars
  /\ UNCHANGED ahVars
  /\ UNCHANGED <<procEnv, envFile, cfgFile, config, loads, server, proc, got>>

\* lines 510-513: the handler attached at import runs on the rejection of
\* the load of the import and calls process.exit(1)
LoadConfigCatch ==
  /\ proc = "running"
  /\ loadPc[1].at = "rejected"
  /\ loadPc' = At(1, "failed")
  /\ proc' = "exit1"
  /\ UNCHANGED <<raised, err, nodeEnv, ehPc, ehNext, logged, res>>
  /\ UNCHANGED reqVars
  /\ UNCHANGED ahVars
  /\ UNCHANGED <<procEnv, envFile, cfgFile, config, isLoaded, loads,
                 loadError, server, got>>

\* README.md lines 233-237: start() calls app.listen(this.port), with the
\* port of line 160 (process.env.PORT || 3000); it does not consult the
\* configuration manager
ServerStart ==
  /\ proc = "running"
  /\ server = "idle"
  /\ server' = "listening"
  /\ UNCHANGED <<raised, err, nodeEnv, ehPc, ehNext, logged, res>>
  /\ UNCHANGED reqVars
  /\ UNCHANGED ahVars
  /\ UNCHANGED <<procEnv, envFile, cfgFile, config, isLoaded, loadPc, loads,
                 loadError, proc, got>>

\* README.md lines 240-254: the handler of SIGTERM or SIGINT calls
\* server.close(callback); the server stops accepting connections
ShutdownSignal ==
  /\ proc = "running"
  /\ server = "listening"
  /\ ~JobsPending
  /\ server' = "closing"
  /\ UNCHANGED <<raised, err, nodeEnv, ehPc, ehNext, logged, res>>
  /\ UNCHANGED reqVars
  /\ UNCHANGED ahVars
  /\ UNCHANGED <<procEnv, envFile, cfgFile, config, isLoaded, loadPc, loads,
                 loadError, proc, got>>

\* README.md lines 242-245 and 250-253: once every connection has ended the
\* callback of server.close runs and calls process.exit(0)
ShutdownClosed ==
  /\ proc = "running"
  /\ server = "closing"
  /\ ~JobsPending
  /\ server' = "closed"
  /\ proc' = "exit0"
  /\ UNCHANGED <<raised, err, nodeEnv, ehPc, ehNext, logged, res>>
  /\ UNCHANGED reqVars
  /\ UNCHANGED ahVars
  /\ UNCHANGED <<procEnv, envFile, cfgFile, config, isLoaded, loadPc, loads,
                 loadError, got>>

\* the keys and default values with which get is called
GetKeys == {"port", "jwtExpiration"}
GetDefaults == {[t |-> "null", n |-> 0, d |-> 0, s |-> <<>>], Str(Text24h)}

\* lines 450-456: get(key, defaultValue = null) throws when isLoaded is
\* false, and otherwise returns this.config[key], or defaultValue when that
\* is undefined
get(loaded, c, key, defaultValue) ==
  IF ~loaded
  THEN [threw |-> TRUE, value |-> Undef]
  ELSE [threw |-> FALSE,
        value |-> IF c[key] # Undef THEN c[key] ELSE defaultValue]

\* lines 462-468: getAll() throws when isLoaded is false, and otherwise
\* returns a copy of this.config
getAll(loaded, c) ==
  IF ~loaded
  THEN [threw |-> TRUE, value |-> Undef]
  ELSE [threw |-> FALSE, value |-> c]

\* one call configManager.get(key, defaultValue) by a client of the module
Get ==
  /\ proc = "running"
  /\ loads > 0
  /\ \E key \in GetKeys, defaultValue \in GetDefaults :
       LET out == get(isLoaded, config, key, defaultValue)
       IN got' = [op |-> "get", key |-> key, threw |-> out.threw,
                  value |-> out.value]
  /\ UNCHANGED <<raised, err, nodeEnv, ehPc, ehNext, logged, res>>
  /\ UNCHANGED reqVars
  /\ UNCHANGED ahVars
  /\ UNCHANGED <<procEnv, envFile, cfgFile, config, isLoaded, loadPc, loads,
                 loadError, server, proc>>

\* one call configManager.getAll() by a client of the module
GetAll ==
  /\ proc = "running"
  /\ loads > 0
  /\ LET out == getAll(isLoaded, config)
     IN got' = [op |-> "getAll", key |-> "", threw |-> out.threw,
                value |-> out.value]
  /\ UNCHANGED <<raised, err, nodeEnv, ehPc, ehNext, logged, res>>
  /\ UNCHANGED reqVars
  /\ UNCHANGED ahVars
  /\ UNCHANGED <<procEnv, envFile, cfgFile, config, isLoaded, loadPc, loads,
                 loadError, server, proc>>

\* a client calls validateConfig() on the exported instance (private by its
\* documentation only): it throws or returns, and changes nothing
CallValidateConfig ==
  /\ proc = "running"
  /\ loads > 0
  /\ got' = [op |-> "validateConfig", key |-> "",
             threw |-> validateConfig(config) # "", value |-> Undef]
  /\ got' # got
  /\ UNCHANGED <<raised, err, nodeEnv, ehPc, ehNext, logged, res>>
  /\ UNCHANGED reqVars
  /\ UNCHANGED ahVars
  /\ UNCHANGED <<procEnv, envFile, cfgFile, config, isLoaded, loadPc, loads,
                 loadError, server, proc>>

NextCfg ==
  \/ \E i \in 1..MaxLoads : LoadEnvConfig(i)
  \/ \E i \in 1..MaxLoads : LoadEnvironmentConfig(i)
  \/ \E i \in 1..MaxLoads : LoadConfigResume(i)
  \/ LoadConfigCatch
  \/ LoadConfig
  \/ CallLoadEnvConfig
  \/ CallLoadEnvironmentConfig
  \/ CallValidateConfig
  \/ ServerStart
  \/ ShutdownSignal
  \/ ShutdownClosed
  \/ Get
  \/ GetAll

CfgSpec == InitCfg /\ [][NextCfg]_vars

-----------------------------------------------------------------------------
(* src/middleware/errorHandler.js: asyncHandler(fn), the middleware it      *)
(* returns, and errorHandler behind it.                                     *)

\* the functions wrapped: fn throws before it returns, returns a value that
\* is not a promise, or returns a promise that fulfils or rejects; a fn that
\* completes may have called next() itself
WrappedFns ==
  { [kind |-> k, failure |-> f, callsNext |-> FALSE] :
      k \in {"throws", "rejects"}, f \in FailureRecords }
    \cup { [kind |-> k, failure |-> NoFailure, callsNext |-> c] :
             k \in {"value", "fulfils"}, c \in BOOLEAN }

\* one call of next: who made it and with which argument (NoFailure: none)
NextCall(by, arg) == [by |-> by, arg |-> arg]

\* line 93 up to .catch: fn(req, res, next) is evaluated first; when it
\* throws, the exception leaves the middleware and neither Promise.resolve
\* nor .catch is reached; otherwise its result is wrapped by Promise.resolve
\* and the reaction is attached
asyncHandler(fn) ==
  [escaped |-> IF fn.kind = "throws" THEN fn.failure ELSE NoFailure,
   attached |-> fn.kind # "throws",
   promise |-> CASE fn.kind = "throws" -> NoPromise
                 [] fn.kind = "value" ->
                      [state |-> "fulfilled", reason |-> NoFailure]
                 [] OTHER -> [state |-> "pending", reason |-> NoFailure],
   calls |-> IF fn.callsNext THEN <<NextCall("fn", NoFailure)>> ELSE <<>>]

\* a variant of the reaction attached with .then(next) in place of
\* .catch(next)
ThenReaction(p) ==
  IF p.state = "fulfilled" THEN <<NextCall("asyncHandler", NoFailure)>>
  ELSE <<>>

\* line 93: .catch(next), the calls next receives once the promise settled
CatchReaction(p) ==
  IF p.state = "rejected" THEN <<NextCall("asyncHandler", p.reason)>>
  ELSE <<>>

\* a request reaches a route wrapped by asyncHandler
InitAsync ==
  /\ raised = NoFailure
  /\ err = NoFailure
  /\ nodeEnv \in NodeEnvs
  /\ ehPc = "idle"
  /\ ehNext = 0
  /\ logged = FALSE
  /\ res = NoResponse
  /\ route = "none"
  /\ rules = <<>>
  /\ ruleState = <<>>
  /\ joined = NotJoined
  /\ contexts = <<>>
  /\ vPc = "idle"
  /\ checked = FALSE
  /\ violations = <<>>
  /\ nextLog = <<>>
  /\ hPc = "idle"
  /\ hFault = NoFailure
  /\ ConfigIdle
  /\ wrapped \in WrappedFns
  /\ ahPc = "ready"
  /\ promise = NoPromise
  /\ ahLog = <<>>
  /\ escaped = NoFailure

\* lines 92-93: the middleware (req, res, next) => ... is called
AsyncHandlerCall ==
  /\ ahPc = "ready"
  /\ LET out == asyncHandler(wrapped)
     IN /\ escaped' = out.escaped
        /\ promise' = out.promise
        /\ ahLog' = ahLog \o out.calls
        /\ ahPc' = IF out.attached THEN "attached" ELSE "escaped"
  /\ UNCHANGED <<raised, err, nodeEnv, ehPc, ehNext, logged, res, wrapped>>
  /\ UNCHANGED reqVars
  /\ UNCHANGED cfgVars

\* the promise fn returned settles
FnSettle ==
  /\ ahPc = "attached"
  /\ promise.state = "pending"
  /\ promise' = IF wrapped.kind = "rejects"
                THEN [state |-> "rejected", reason |-> wrapped.failure]
                ELSE [state |-> "fulfilled", reason |-> NoFailure]
  /\ UNCHANGED <<raised, err, nodeEnv, ehPc, ehNext, logged, res, wrapped,
                 ahPc, ahLog, escaped>>
  /\ UNCHANGED reqVars
  /\ UNCHANGED cfgVars

\* line 93: the reaction attached by .catch(next) runs on the settled
\* promise; a call next(err) hands err to errorHandler, the error
\* middleware of the application
AsyncHandlerCatch ==
  /\ ahPc = "attached"
  /\ promise.state \in {"fulfilled", "rejected"}
  /\ LET calls == CatchReaction(promise)
     IN /\ ahLog' = ahLog \o calls
        /\ IF calls # <<>> /\ calls[1].arg # NoFailure
           THEN /\ raised' = calls[1].arg
                /\ err' = calls[1].arg
                /\ ehPc' = "ready"
           ELSE UNCHANGED <<raised, err, ehPc>>
  /\ ahPc' = "done"
  /\ UNCHANGED <<nodeEnv, ehNext, logged, res, wrapped, promise, escaped>>
  /\ UNCHANGED reqVars
  /\ UNCHANGED cfgVars

NextAsync ==
  \/ AsyncHandlerCall
  \/ FnSettle
  \/ AsyncHandlerCatch
  \/ ErrorHandler

AsyncSpec == InitAsync /\ [][NextAsync]_vars

-----------------------------------------------------------------------------
(* The classification table of the specification, section 4.1.             *)

Kinds == <<"cast", "duplicate", "validation", "malformed", "expired">>

\* whether failure record e matches the k-th kind of the table
MatchesKind(e, k) ==
  CASE k = 1 -> e.name = "CastError"
    [] k = 2 -> e.code = 11000
    [] k = 3 -> e.name = "ValidationError"
    [] k = 4 -> e.name = "JsonWebTokenError"
    [] k = 5 -> e.name = "TokenExpiredError"

MatchedKinds(e) == { k \in 1..Len(Kinds) : MatchesKind(e, k) }

Min(S) == CHOOSE x \in S : \A y \in S : x <= y
Max(S) == CHOOSE x \in S : \A y \in S : x >= y

\* the per-field messages in the order the violations were collected
CollectedMessages(e) == [i \in 1..Len(e.errors) |-> e.errors[i].message]

\* the status code and message the table gives the k-th kind
TableEntry(e, k) ==
  CASE k = 1 -> [statusCode |-> 400, message |-> "Invalid ID format"]
    [] k = 2 -> [statusCode |-> 400, message |-> "Duplicate field value entered"]
    [] k = 3 -> [statusCode |-> 400, message |-> Join(CollectedMessages(e))]
    [] k = 4 -> [statusCode |-> 401, message |-> "Invalid token"]
    [] k = 5 -> [statusCode |-> 401, message |-> "Token expired"]

\* the table's last row: the caller's code and message, with the defaults
TableDefault(e) ==
  [statusCode |-> IF e.statusCode # NoNumber THEN e.statusCode ELSE 500,
   message |-> IF e.message # "" THEN e.message ELSE "Internal Server Error"]

\* what errorHandler wrote, as a row of the table
Written == [statusCode |-> res.statusCode, message |-> res.body.message]

Responded == ehPc = "done" /\ res.by = "errorHandler"
Returned == ehPc \in {"done", "threw"}
Production == nodeEnv # "development"

-----------------------------------------------------------------------------
(* Claims about errorHandler, checked under ErrSpec.                       *)

\* C1 as stated: a failure record that matches several kinds gets the status
\* code and message of the earliest matching kind of the table.
C1_FirstMatchWins ==
  (Returned /\ Cardinality(MatchedKinds(raised)) >= 2)
    => (Responded /\ Written = TableEntry(raised, Min(MatchedKinds(raised))))

\* C1 as amended: whenever errorHandler writes a response for a failure
\* record that matches several kinds, the status code and message are those
\* of the latest matching kind of the table (each if overwrites the result
\* of the ones before it); the validation message lists the per-field
\* messages in Object.values order.
C1_LastMatchWins ==
  (Responded /\ Cardinality(MatchedKinds(raised)) >= 2)
    => LET k == Max(MatchedKinds(raised))
       IN /\ res.statusCode = TableEntry(raised, k).statusCode
          /\ res.body.message =
                IF k = 3 THEN Join(ObjectValuesMessages(raised.errors))
                ELSE TableEntry(raised, k).message

\* a response was written for a record whose earliest and latest matching
\* kinds have different table rows
C1_Witness ==
  /\ Responded
  /\ Cardinality(MatchedKinds(raised)) >= 2
  /\ TableEntry(raised, Min(MatchedKinds(raised)))
       # TableEntry(raised, Max(MatchedKinds(raised)))
  /\ raised.name = "CastError"

\* C2: in a production build the body errorHandler writes has neither the
\* error-detail field nor the stack-trace field populated (the error field
\* is an object without properties, the stack field is absent or {}).
C2_NoDetailInProduction ==
  (Responded /\ Production)
    => /\ res.body.error = <<>>
       /\ res.body.stack \in {Undefined, EmptyObject}

\* C3: in a production build a 5xx response carries a generic message,
\* never the raw message of the failure record.
C3_GenericMessageOn5xx ==
  (Responded /\ Production /\ res.statusCode \in 500..599)
    => res.body.message = "Internal Server Error"

\* C4: the status field of the body is "fail" when the final status code
\* starts with 4 and "error" otherwise.
C4_StatusFromCode ==
  Responded
    => res.body.status = IF StartsWith4(res.statusCode) THEN "fail" ELSE "error"

\* C5: a failure record that matches at most one kind gets the status code
\* and message of its row of the table.
C5_TableRow ==
  (Returned /\ Cardinality(MatchedKinds(raised)) <= 1)
    => /\ Responded
       /\ Written = IF MatchedKinds(raised) = {} THEN TableDefault(raised)
                    ELSE TableEntry(raised, Min(MatchedKinds(raised)))

\* C7: every call of errorHandler ends having written exactly one response,
\* without calling next and without throwing.
C7_ExactlyOneResponse ==
  Returned => (ehPc = "done" /\ res.count = 1 /\ ehNext = 0)

-----------------------------------------------------------------------------
(* Claims about validate and the route handler, checked under ReqSpec.     *)

Settled(i) == ruleState[i] \in {"fulfilled", "rejected"}

RECURSIVE DeclaredViolations(_)
\* the violations of the first n rules, in declaration order
DeclaredViolations(n) ==
  IF n = 0 THEN <<>>
  ELSE DeclaredViolations(n - 1) \o ViolationsOf(n, rules[n])

\* C6 as stated: every error response is written by errorHandler: validate
\* hands a non-empty violation list to it through next and writes nothing,
\* and a failing route handler writes nothing; with an empty list next()
\* runs.
C6_OnlyErrorHandlerWritesErrors ==
  /\ (res.count > 0 /\ res.statusCode >= 400) => res.by = "errorHandler"
  /\ (route = "validate" /\ checked /\ violations # <<>>)
       => (nextLog = <<"next(error)">> /\ res.by # "validate")
  /\ (route = "validate" /\ checked /\ violations = <<>>)
       => nextLog = <<"next()">>

\* C6 as amended: validate answers a non-empty violation list itself, with
\* status 422 and the list in the body, and does not call next; systemInfo
\* answers its own failure from its catch block (the failure's statusCode,
\* or 500) and errorHandler is not reached; errorHandler is reached from
\* validate only through next(error) after a rule's run rejected; with an
\* empty list validate writes nothing and calls next() once.
C6_LayersAnswerTheirOwnFailures ==
  route = "validate" =>
    /\ (checked /\ violations # <<>>)
         => /\ res = [count |-> 1, by |-> "validate", statusCode |-> 422,
                      body |-> [success |-> FALSE,
                                message |-> "Validation failed",
                                errors |-> violations]]
            /\ nextLog = <<>>
            /\ hPc = "idle"
            /\ ehPc = "idle"
    /\ (checked /\ violations = <<>>)
         => (nextLog = <<"next()">> /\ res.by # "validate" /\ ehPc = "idle")
    /\ (hPc = "done" /\ hFault # NoFailure)
         => /\ res.count = 1
            /\ res.by = "systemInfo"
            /\ res.statusCode = IF hFault.statusCode # NoNumber
                                THEN hFault.statusCode ELSE 500
            /\ ehPc = "idle"
    /\ ehPc # "idle"
         => /\ \E i \in 1..Len(rules) : ruleState[i] = "rejected"
            /\ nextLog[Len(nextLog)] = "next(error)"
            /\ ~checked

\* validate found violations and wrote the 422 response
C6_Witness ==
  /\ route = "validate"
  /\ checked
  /\ Len(violations) >= 2
  /\ res.by = "validate"
  /\ res.statusCode = 422

\* C8: within a request through validate, a response is written at most
\* once and only after every rule's run has settled, and the violations are
\* not read while a run is pending.
C8_ResponseAfterAllRulesSettled ==
  route = "validate"
    => /\ res.count <= 1
       /\ res.count > 0 => \A i \in 1..Len(rules) : Settled(i)
       /\ checked => \A i \in 1..Len(rules) : Settled(i)

\* C9: the violation list validate reads holds the violations of the
\* failing rules in declaration order, whatever order the runs settled in;
\* when no rule fails it is empty and next() is called.
C9_ViolationsInDeclarationOrder ==
  (route = "validate" /\ checked)
    => /\ violations = DeclaredViolations(Len(rules))
       /\ (\A i \in 1..Len(rules) : rules[i].fails = 0)
            => (violations = <<>> /\ nextLog = <<"next()">>)

-----------------------------------------------------------------------------
(* Claims about the configuration loader, checked under CfgSpec.           *)

\* the load of the import is the only call made on the loader
ImportLoadAlone == loads = 1

\* the load of the import, alone, has gone past its read of the settings
\* file
PastConfigRead ==
  /\ ImportLoadAlone
  /\ cfgFile # Unread
  /\ loadPc[1].at \in {"validating", "loaded", "rejected", "failed"}

\* the load of the import, alone, has read the settings file and ended
LoadEnded ==
  /\ ImportLoadAlone
  /\ cfgFile # Unread
  /\ loadPc[1].at \in {"loaded", "rejected", "failed"}

\* C10: a configuration missing port, databaseUrl or jwtSecret makes the
\* load fail and the process exit with code 1, and the server is never
\* listening with it.
C10_NoServingWithIncompleteConfig ==
  (PastConfigRead /\ cfgFile.state # "malformed"
     /\ Len(MissingKeys(config)) > 0)
    => /\ server # "listening"
       /\ loadPc[1].at # "loaded"
       /\ ~isLoaded
       /\ loadPc[1].at = "failed" => proc = "exit1"

\* process.env supplies port, databaseUrl and jwtSecret, directly or
\* through the .env file
EnvSuppliesRequired ==
  /\ procEnv.PORT \notin {Undefined, ""}
  /\ procEnv.DATABASE_URL \notin {Undefined, ""}
  /\ procEnv.JWT_SECRET \notin {Undefined, ""}

\* C11: when config/<environment>.json is absent and the environment
\* variables (or the .env file) supply port, databaseUrl and jwtSecret, the
\* load completes successfully; a settings file is fatal only when its
\* content is malformed.
C11_AbsentFileFallsBackToEnv ==
  /\ (LoadEnded /\ cfgFile.state = "absent" /\ EnvSuppliesRequired)
       => (loadPc[1].at = "loaded" /\ isLoaded /\ proc # "exit1")
  /\ (LoadEnded /\ cfgFile.state = "malformed")
       => /\ loadPc[1].at \in {"rejected", "failed"}
          /\ loadPc[1].at = "failed" => proc = "exit1"

\* the port-range message of validateConfig, as loadConfig rejects with it
PortRangeError == WrapLoadError("Puerto invalido. Debe estar entre 1 y 65535")

\* the value is an integer in 1..65535
ValidPort(v) == v.t = "number" /\ v.d = 0 /\ v.n >= 1 /\ v.n <= 65535

\* the settings file was read and parsed, and the configuration holds a
\* port together with an acceptable databaseUrl, jwtSecret and jwtExpiration
OnlyPortInQuestion ==
  /\ LoadEnded
  /\ cfgFile.state = "ok"
  /\ config.port # Undef
  /\ validateConfig([config EXCEPT !.port = Num(3000)]) = ""

\* C12: the load completes only if port is an integer in 1..65535; every
\* other port value (0, negative, above 65535, non-integer, non-numeric
\* text) makes the load fail with the port-range message and the process
\* exit with code 1.
C12_PortMustBeIntegerInRange ==
  /\ (ImportLoadAlone /\ loadPc[1].at = "loaded") => ValidPort(config.port)
  /\ (OnlyPortInQuestion /\ ~ValidPort(config.port))
       => /\ loadPc[1].at \in {"rejected", "failed"}
          /\ loadError = PortRangeError
          /\ loadPc[1].at = "failed" => proc = "exit1"

\* C13: errorHandler leaves the failure record it receives unchanged: once
\* it has returned, every attribute of the record (statusCode and message
\* in particular) has the value it had when the failure was raised.
C13_FailureRecordUnchanged ==
  Returned => (/\ err.statusCode = raised.statusCode
               /\ err.message = raised.message
               /\ err = raised)

\* the configuration holds port, databaseUrl and jwtSecret and
\* validateConfig returns on it
Validated(c) == Len(MissingKeys(c)) = 0 /\ validateConfig(c) = ""

\* get and getAll have to throw: no load has completed successfully, or the
\* last loadConfig() to end failed
MustThrow == ~isLoaded \/ loadError # ""

\* C14: isLoaded is true only if port, databaseUrl and jwtSecret are present
\* in config and validateConfig has accepted them; get and getAll throw in
\* every state before a load has completed successfully and after any
\* failed load, and what they return never comes from a configuration that
\* failed validation.
C14_LoadedOnlyWhenValidated ==
  /\ [](isLoaded => Validated(config))
  /\ [][(got' # got /\ got'.op \in {"get", "getAll"})
          => /\ MustThrow => got'.threw
             /\ ~got'.threw => Validated(config)]_vars

\* the calls next received from asyncHandler's own reaction
CallsByAsyncHandler == SelectSeq(ahLog, LAMBDA c : c.by = "asyncHandler")

\* next is called with the failure exactly once when fn's promise rejects,
\* and asyncHandler never calls next when it fulfils
RejectionForwardedOnce ==
  /\ Len(CallsByAsyncHandler) <= 1
  /\ (ahPc = "done" /\ promise.state = "rejected")
       => CallsByAsyncHandler = <<NextCall("asyncHandler", wrapped.failure)>>
  /\ promise.state \in {"pending", "fulfilled"} => CallsByAsyncHandler = <<>>

\* C15: asyncHandler(fn) calls next with the failure exactly once when fn's
\* promise rejects and never calls next itself when it fulfils; a
\* synchronous throw inside fn is likewise forwarded to next and does not
\* escape the middleware.
C15_SyncThrowForwarded ==
  /\ RejectionForwardedOnce
  /\ (wrapped.kind = "throws" /\ ahPc # "ready")
       => /\ escaped = NoFailure
          /\ CallsByAsyncHandler
               = <<NextCall("asyncHandler", wrapped.failure)>>

\* C15 as amended: asyncHandler(fn) calls next with the failure exactly
\* once when fn's promise rejects and never calls next itself when it
\* fulfils; a synchronous throw inside fn is not forwarded by asyncHandler:
\* the exception leaves the middleware, no promise is created, and
\* asyncHandler calls neither next nor errorHandler.
C15_SyncThrowEscapes ==
  /\ RejectionForwardedOnce
  /\ (wrapped.kind = "throws" /\ ahPc # "ready")
       => /\ ahPc = "escaped"
          /\ escaped = wrapped.failure
          /\ promise = NoPromise
          /\ ahLog = <<>>
          /\ ehPc = "idle"
  /\ wrapped.kind # "throws" => escaped = NoFailure

\* fn's promise rejected with a CastError, asyncHandler handed it to next
\* once, and errorHandler answered
C15_Witness ==
  /\ wrapped.kind = "rejects"
  /\ wrapped.failure.name = "CastError"
  /\ ahPc = "done"
  /\ ahLog = <<NextCall("asyncHandler", wrapped.failure)>>
  /\ Responded

=============================================================================
